---- MODULE Spec2Model ----
(***************************************************************************)
(* The job lifecycle manager of src/src/lib/jobManager.ts (class           *)
(* JobManager): an in-memory registry of OCR jobs with a per-job           *)
(* processing timeout and a per-job cleanup delay, both run by the host's  *)
(* timer queue (setTimeout / clearTimeout).                                *)
(*                                                                         *)
(* Time is virtual and advances in steps of TickMs.  A timer fires in the  *)
(* instant it becomes due: time does not advance, and no caller runs,      *)
(* while a timer is due (the semantics of the fake timers the              *)
(* repository's tests drive the manager with).  Timers due in the same     *)
(* instant fire in either order.                                           *)
(***************************************************************************)
EXTENDS Integers, Sequences, FiniteSets, TLC

VARIABLES
    jobs,           \* JobManager.jobs: Map<string, Job>
    timeouts,       \* JobManager.timeouts: Map<string, Timeout handle>
    cleanupTimers,  \* JobManager.cleanupTimers: Map<string, Timeout handle>
    timers,         \* the host's queue of pending setTimeout timers
    now,            \* the clock new Date() reads, in ms
    issued,         \* the UUIDs crypto.randomUUID() has handed out so far, in order
    last,           \* the latest call or callback, its id and what it returned; args
                    \* keeps createJob's and failJob's argument (hist keeps the
                    \* status updateJobStatus was given), and what a read returned
    scenario,       \* what the callers do in this run: see Init
    calls,          \* how many calls the callers have made so far
    hist,           \* history: per id, the latest caller operation applied to it
    sinceTerminal,  \* history: per id, ms since its latest entry into done/failed
    sinceFirst,     \* history: per id, ms since its first entry into done/failed
    everFailed      \* history: the ids failJob has been applied to, by a caller or a timeout

vars == <<jobs, timeouts, cleanupTimers, timers, now, issued, last, scenario, calls,
          hist, sinceTerminal, sinceFirst, everFailed>>

(***************************************************************************)
(* Bounds of the model and program constants.                              *)
(***************************************************************************)
MaxTicks == 1       \* the clock read by new Date() stops counting after this many ticks
MaxCalls == 4       \* how many calls the callers make in a run with many jobs

TickMs == 60 * 1000                 \* granularity of virtual time
defaultTimeoutMs == 2 * 60 * 1000
cleanupDelayMs == 5 * 60 * 1000

Statuses == {"queued", "processing", "done", "failed"}
FilePaths == {"/uploads/test.pdf"}
ProgressArgs == {0, 50}
ErrorMessages == {"OCR processing failed"}

\* An optional field or argument: absent, or present with a value.
undefined == <<>>
Some(v) == <<v>>

\* The UUIDs crypto.randomUUID() draws from.
UUIDs == {"1b4e28ba", "6fa459ea"}
\* Mutant: the id does not use the UUID drawn.
JobIdOf_Fixed(uuid) == "job_" \o "1b4e28ba"

\* `job_${crypto.randomUUID()}`
JobIdOf(uuid) == "job_" \o uuid
JobIds == {JobIdOf(u) : u \in UUIDs}
\* The ids a caller may pass: every id createJob can return, whether or not it
\* has returned it yet.
IdArgs == JobIds

\* `Job timed out after ${this.defaultTimeoutMs / 1000} seconds`
TimeoutMessage ==
    "Job timed out after " \o ToString(defaultTimeoutMs \div 1000) \o " seconds"

(***************************************************************************)
(* Map<K, V> as a function on the keys present.                            *)
(***************************************************************************)
MapHas(m, k) == k \in DOMAIN m
MapSet(m, k, v) == [x \in DOMAIN m \cup {k} |-> IF x = k THEN v ELSE m[x]]
MapDelete(m, k) == [x \in DOMAIN m \ {k} |-> m[x]]
EmptyMap == [x \in {} |-> undefined]
\* Map.values() of the jobs map, in insertion order.  A job's key is inserted
\* once, by createJob, and set() on a key already present keeps its place, so
\* the insertion order is the order in which the ids were generated.
MapValues(m) ==
    LET created == [i \in DOMAIN issued |-> JobIdOf(issued[i])]
        keys == SelectSeq(created, LAMBDA k : MapHas(m, k))
    IN  [i \in DOMAIN keys |-> m[keys[i]]]

(***************************************************************************)
(* The host's timers.  A handle is the timer itself: its callback (kind    *)
(* and job id) and the ms left until it is due.                            *)
(***************************************************************************)
Timer(kind, jobId, delay) == [kind |-> kind, jobId |-> jobId, remaining |-> delay]
\* setTimeout(callback, delay): the timer joins the queue.
setTimeout(q, t) == q \cup {t}
\* clearTimeout(handle): the timer leaves the queue; a no-op when it is not there.
clearTimeout(q, t) == q \ {t}

\* The manager's mutable state, threaded through its methods.
State == [jobs |-> jobs, timeouts |-> timeouts, cleanupTimers |-> cleanupTimers,
          timers |-> timers]


(***************************************************************************)
(* JobManager's private methods.                                           *)
(***************************************************************************)
\* Mutant: every job's timeout timer is cleared.
clearJobTimeout_All(s, jobId) ==
    [s EXCEPT !.timers = {t \in @ : \A k \in DOMAIN s.timeouts : t # s.timeouts[k]},
              !.timeouts = EmptyMap]

clearJobTimeout(s, jobId) ==
    IF MapHas(s.timeouts, jobId)
    THEN [s EXCEPT !.timers = clearTimeout(@, s.timeouts[jobId]),
                   !.timeouts = MapDelete(@, jobId)]
    ELSE s

\* Mutant: the pending timeout timer is cleared and none is started.
startJobTimeout_OnlyClears(s, jobId) ==
    IF MapHas(s.timeouts, jobId)
    THEN [s EXCEPT !.timers = clearTimeout(@, s.timeouts[jobId]),
                   !.timeouts = MapDelete(@, jobId)]
    ELSE s

\* Mutant: the timeout timer already pending is not cleared first.
startJobTimeout_KeepsStale(s, jobId) ==
    LET timeoutId == Timer("timeout", jobId, defaultTimeoutMs)
    IN  [s EXCEPT !.timers = setTimeout(@, timeoutId),
                  !.timeouts = MapSet(@, jobId, timeoutId)]

startJobTimeout(s, jobId) ==
    LET s1 == clearJobTimeout(s, jobId)
        timeoutId == Timer("timeout", jobId, defaultTimeoutMs)
    IN  [s1 EXCEPT !.timers = setTimeout(@, timeoutId),
                   !.timeouts = MapSet(@, jobId, timeoutId)]

\* Mutant: the handle is forgotten, and the timer is left in the host's queue.
clearJobCleanup_ForgetsTimer(s, jobId) ==
    IF MapHas(s.cleanupTimers, jobId)
    THEN [s EXCEPT !.cleanupTimers = MapDelete(@, jobId)]
    ELSE s

clearJobCleanup(s, jobId) ==
    IF MapHas(s.cleanupTimers, jobId)
    THEN [s EXCEPT !.timers = clearTimeout(@, s.cleanupTimers[jobId]),
                   !.cleanupTimers = MapDelete(@, jobId)]
    ELSE s

\* Mutant: a cleanup timer already pending is kept, and none is scheduled.
scheduleJobCleanup_KeepsFirst(s, jobId) ==
    IF MapHas(s.cleanupTimers, jobId)
    THEN s
    ELSE LET cleanupTimerId == Timer("cleanup", jobId, cleanupDelayMs)
         IN  [s EXCEPT !.timers = setTimeout(@, cleanupTimerId),
                       !.cleanupTimers = MapSet(@, jobId, cleanupTimerId)]

\* Mutant: the pending cleanup timer is cleared and none is scheduled.
scheduleJobCleanup_OnlyClears(s, jobId) ==
    IF MapHas(s.cleanupTimers, jobId)
    THEN [s EXCEPT !.timers = clearTimeout(@, s.cleanupTimers[jobId]),
                   !.cleanupTimers = MapDelete(@, jobId)]
    ELSE s

\* Mutant: the cleanup timer already pending is not cleared first.
scheduleJobCleanup_KeepsOld(s, jobId) ==
    LET cleanupTimerId == Timer("cleanup", jobId, cleanupDelayMs)
    IN  [s EXCEPT !.timers = setTimeout(@, cleanupTimerId),
                  !.cleanupTimers = MapSet(@, jobId, cleanupTimerId)]

scheduleJobCleanup(s, jobId) ==
    LET s1 == clearJobCleanup(s, jobId)
        cleanupTimerId == Timer("cleanup", jobId, cleanupDelayMs)
    IN  [s1 EXCEPT !.timers = setTimeout(@, cleanupTimerId),
                   !.cleanupTimers = MapSet(@, jobId, cleanupTimerId)]

(***************************************************************************)
(* JobManager's public methods: each maps the state before the call to     *)
(* the state after it and the value returned.  date is what new Date()     *)
(* reads during the call.                                                  *)
(***************************************************************************)
NewJob(jobId, filePath, date) ==
    [id |-> jobId, status |-> "queued", filePath |-> filePath, createdAt |-> date,
     progress |-> 0, error |-> undefined, completedAt |-> undefined]

\* Mutant: a new job's timeout starts at creation.
createJob_StartsTimeout(s, filePath, uuid, date) ==
    LET jobId == JobIdOf(uuid)
        s1 == [s EXCEPT !.jobs = MapSet(@, jobId, NewJob(jobId, filePath, date))]
    IN  [state |-> startJobTimeout(s1, jobId), ret |-> jobId]

createJob(s, filePath, uuid, date) ==
    LET jobId == JobIdOf(uuid)
    IN  [state |-> [s EXCEPT !.jobs = MapSet(@, jobId, NewJob(jobId, filePath, date))],
         ret |-> jobId]

getJob(s, jobId) == IF MapHas(s.jobs, jobId) THEN Some(s.jobs[jobId]) ELSE undefined

\* getJob returns this.jobs.get(jobId): the registry's own Job object, not a
\* copy.  The object of the id ref is the one createJob stored under ref, which
\* updateJobStatus and failJob assign to in place.  ReadThrough is what a caller
\* holding it reads once the registry has gone from before to after: the
\* registry's record, or, once the registry has dropped the object, the fields
\* it had then.
ReadThrough(ref, before, after) == IF MapHas(after, ref) THEN after[ref] ELSE before[ref]

\* for (const job of this.jobs.values()) { counts.total++; counts[job.status]++ }
RECURSIVE countJobs(_, _)
\* Mutant: the loop stops after the first job.
countJobs_FirstOnly(values, counts) ==
    IF values = <<>>
    THEN counts
    ELSE [counts EXCEPT !.total = @ + 1, ![Head(values).status] = @ + 1]

countJobs(values, counts) ==
    IF values = <<>>
    THEN counts
    ELSE countJobs(Tail(values), [counts EXCEPT !.total = @ + 1,
                                                ![Head(values).status] = @ + 1])

getJobCounts(s) ==
    countJobs(MapValues(s.jobs),
              [total |-> 0, queued |-> 0, processing |-> 0, done |-> 0, failed |-> 0])

\* Mutant: every job is listed twice.
getAllJobs_Twice(s) == MapValues(s.jobs) \o MapValues(s.jobs)

getAllJobs(s) == MapValues(s.jobs)

\* Mutant: a progress lower than the job's is not stored.
updateJobStatus_KeepsHigher(s, jobId, status, progress, date) ==
    IF ~MapHas(s.jobs, jobId)
    THEN [state |-> s, ret |-> FALSE]
    ELSE LET job0 == s.jobs[jobId]
             job1 == [job0 EXCEPT !.status = status]
             job2 == IF progress # undefined /\ progress[1] >= job0.progress
                     THEN [job1 EXCEPT !.progress = progress[1]]
                     ELSE job1
             job3 == IF status \in {"done", "failed"}
                     THEN [job2 EXCEPT !.completedAt = Some(date)]
                     ELSE job2
             s1 == [s EXCEPT !.jobs = MapSet(@, jobId, job3)]
             s2 == IF status = "processing"
                   THEN startJobTimeout(s1, jobId)
                   ELSE IF status \in {"done", "failed"}
                        THEN scheduleJobCleanup(clearJobTimeout(s1, jobId), jobId)
                        ELSE s1
         IN  [state |-> s2, ret |-> TRUE]

\* Mutant: an update of a job that is done or failed is refused.
updateJobStatus_RefusesTerminal(s, jobId, status, progress, date) ==
    IF ~MapHas(s.jobs, jobId) \/ s.jobs[jobId].status \in {"done", "failed"}
    THEN [state |-> s, ret |-> FALSE]
    ELSE LET job0 == s.jobs[jobId]
             job1 == [job0 EXCEPT !.status = status]
             job2 == IF progress # undefined
                     THEN [job1 EXCEPT !.progress = progress[1]]
                     ELSE job1
             job3 == IF status \in {"done", "failed"}
                     THEN [job2 EXCEPT !.completedAt = Some(date)]
                     ELSE job2
             s1 == [s EXCEPT !.jobs = MapSet(@, jobId, job3)]
             s2 == IF status = "processing"
                   THEN startJobTimeout(s1, jobId)
                   ELSE IF status \in {"done", "failed"}
                        THEN scheduleJobCleanup(clearJobTimeout(s1, jobId), jobId)
                        ELSE s1
         IN  [state |-> s2, ret |-> TRUE]

\* Mutant: progress goes back to 0 when no progress is given, and createdAt is
\* stamped again.
updateJobStatus_Resets(s, jobId, status, progress, date) ==
    IF ~MapHas(s.jobs, jobId)
    THEN [state |-> s, ret |-> FALSE]
    ELSE LET job0 == s.jobs[jobId]
             job1 == [job0 EXCEPT !.status = status, !.createdAt = date]
             job2 == IF progress # undefined
                     THEN [job1 EXCEPT !.progress = progress[1]]
                     ELSE [job1 EXCEPT !.progress = 0]
             job3 == IF status \in {"done", "failed"}
                     THEN [job2 EXCEPT !.completedAt = Some(date)]
                     ELSE job2
             s1 == [s EXCEPT !.jobs = MapSet(@, jobId, job3)]
             s2 == IF status = "processing"
                   THEN startJobTimeout(s1, jobId)
                   ELSE IF status \in {"done", "failed"}
                        THEN scheduleJobCleanup(clearJobTimeout(s1, jobId), jobId)
                        ELSE s1
         IN  [state |-> s2, ret |-> TRUE]

\* Mutant: a terminal update does not clear the timeout timer.
updateJobStatus_KeepsTimeout(s, jobId, status, progress, date) ==
    IF ~MapHas(s.jobs, jobId)
    THEN [state |-> s, ret |-> FALSE]
    ELSE LET job0 == s.jobs[jobId]
             job1 == [job0 EXCEPT !.status = status]
             job2 == IF progress # undefined
                     THEN [job1 EXCEPT !.progress = progress[1]]
                     ELSE job1
             job3 == IF status \in {"done", "failed"}
                     THEN [job2 EXCEPT !.completedAt = Some(date)]
                     ELSE job2
             s1 == [s EXCEPT !.jobs = MapSet(@, jobId, job3)]
             s2 == IF status = "processing"
                   THEN startJobTimeout(s1, jobId)
                   ELSE IF status \in {"done", "failed"}
                        THEN scheduleJobCleanup(s1, jobId)
                        ELSE s1
         IN  [state |-> s2, ret |-> TRUE]

updateJobStatus(s, jobId, status, progress, date) ==
    IF ~MapHas(s.jobs, jobId)
    THEN [state |-> s, ret |-> FALSE]
    ELSE LET job0 == s.jobs[jobId]
             job1 == [job0 EXCEPT !.status = status]
             job2 == IF progress # undefined
                     THEN [job1 EXCEPT !.progress = progress[1]]
                     ELSE job1
             job3 == IF status \in {"done", "failed"}
                     THEN [job2 EXCEPT !.completedAt = Some(date)]
                     ELSE job2
             s1 == [s EXCEPT !.jobs = MapSet(@, jobId, job3)]
             s2 == IF status = "processing"
                   THEN startJobTimeout(s1, jobId)
                   ELSE IF status \in {"done", "failed"}
                        THEN scheduleJobCleanup(clearJobTimeout(s1, jobId), jobId)
                        ELSE s1
         IN  [state |-> s2, ret |-> TRUE]

\* Mutant: the error message is not stored.
failJob_NoError(s, jobId, errorMessage, date) ==
    IF ~MapHas(s.jobs, jobId)
    THEN [state |-> s, ret |-> FALSE]
    ELSE LET job == [s.jobs[jobId] EXCEPT !.status = "failed",
                                          !.completedAt = Some(date)]
             s1 == [s EXCEPT !.jobs = MapSet(@, jobId, job)]
         IN  [state |-> scheduleJobCleanup(clearJobTimeout(s1, jobId), jobId),
              ret |-> TRUE]

\* Mutant: the timeout timer is left pending.
failJob_KeepsTimeout(s, jobId, errorMessage, date) ==
    IF ~MapHas(s.jobs, jobId)
    THEN [state |-> s, ret |-> FALSE]
    ELSE LET job == [s.jobs[jobId] EXCEPT !.status = "failed",
                                          !.error = Some(errorMessage),
                                          !.completedAt = Some(date)]
             s1 == [s EXCEPT !.jobs = MapSet(@, jobId, job)]
         IN  [state |-> scheduleJobCleanup(s1, jobId), ret |-> TRUE]

\* Mutant: a job that is already done or failed is not failed again.
failJob_RefusesTerminal(s, jobId, errorMessage, date) ==
    IF ~MapHas(s.jobs, jobId) \/ s.jobs[jobId].status \in {"done", "failed"}
    THEN [state |-> s, ret |-> FALSE]
    ELSE LET job == [s.jobs[jobId] EXCEPT !.status = "failed",
                                          !.error = Some(errorMessage),
                                          !.completedAt = Some(date)]
             s1 == [s EXCEPT !.jobs = MapSet(@, jobId, job)]
         IN  [state |-> scheduleJobCleanup(clearJobTimeout(s1, jobId), jobId),
              ret |-> TRUE]

\* Mutant: the timers are handled before the job is looked up.
failJob_TimersFirst(s, jobId, errorMessage, date) ==
    LET s0 == scheduleJobCleanup(clearJobTimeout(s, jobId), jobId)
    IN  IF ~MapHas(s.jobs, jobId)
        THEN [state |-> s0, ret |-> FALSE]
        ELSE LET job == [s.jobs[jobId] EXCEPT !.status = "failed",
                                              !.error = Some(errorMessage),
                                              !.completedAt = Some(date)]
             IN  [state |-> [s0 EXCEPT !.jobs = MapSet(@, jobId, job)], ret |-> TRUE]

failJob(s, jobId, errorMessage, date) ==
    IF ~MapHas(s.jobs, jobId)
    THEN [state |-> s, ret |-> FALSE]
    ELSE LET job == [s.jobs[jobId] EXCEPT !.status = "failed",
                                          !.error = Some(errorMessage),
                                          !.completedAt = Some(date)]
             s1 == [s EXCEPT !.jobs = MapSet(@, jobId, job)]
         IN  [state |-> scheduleJobCleanup(clearJobTimeout(s1, jobId), jobId),
              ret |-> TRUE]

\* Mutant: the cleanup timer is left pending.
cleanupJob_KeepsCleanupTimer(s, jobId) ==
    IF ~MapHas(s.jobs, jobId)
    THEN [state |-> s, ret |-> FALSE]
    ELSE IF s.jobs[jobId].status \in {"done", "failed"}
         THEN LET s1 == [s EXCEPT !.jobs = MapDelete(@, jobId)]
              IN  [state |-> clearJobTimeout(s1, jobId), ret |-> TRUE]
         ELSE [state |-> s, ret |-> FALSE]

\* Mutant: the status is not looked at.
cleanupJob_AnyStatus(s, jobId) ==
    IF ~MapHas(s.jobs, jobId)
    THEN [state |-> s, ret |-> FALSE]
    ELSE LET s1 == [s EXCEPT !.jobs = MapDelete(@, jobId)]
         IN  [state |-> clearJobTimeout(clearJobCleanup(s1, jobId), jobId),
              ret |-> TRUE]

cleanupJob(s, jobId) ==
    IF ~MapHas(s.jobs, jobId)
    THEN [state |-> s, ret |-> FALSE]
    ELSE IF s.jobs[jobId].status \in {"done", "failed"}
         THEN LET s1 == [s EXCEPT !.jobs = MapDelete(@, jobId)]
              IN  [state |-> clearJobTimeout(clearJobCleanup(s1, jobId), jobId),
                   ret |-> TRUE]
         ELSE [state |-> s, ret |-> FALSE]

\* Mutant: the timeout only marks the job failed.
timeoutCallback_MarksOnly(s, jobId, date) ==
    IF ~MapHas(s.jobs, jobId)
    THEN [state |-> s, ret |-> FALSE]
    ELSE LET job == [s.jobs[jobId] EXCEPT !.status = "failed",
                                          !.error = Some(TimeoutMessage),
                                          !.completedAt = Some(date)]
         IN  [state |-> [s EXCEPT !.jobs = MapSet(@, jobId, job)], ret |-> TRUE]

\* The callback startJobTimeout hands to setTimeout.
timeoutCallback(s, jobId, date) == failJob(s, jobId, TimeoutMessage, date)

\* Mutant: the callback forgets the handle and keeps the job.
cleanupCallback_KeepsJob(s, jobId) ==
    [s EXCEPT !.cleanupTimers = MapDelete(@, jobId)]

\* Mutant: the callback empties the registry.
cleanupCallback_Sweeps(s, jobId) ==
    [s EXCEPT !.jobs = EmptyMap,
              !.cleanupTimers = MapDelete(@, jobId)]

\* The callback scheduleJobCleanup hands to setTimeout.
cleanupCallback(s, jobId) ==
    [s EXCEPT !.jobs = MapDelete(@, jobId),
              !.cleanupTimers = MapDelete(@, jobId)]

\* crypto.randomUUID(): a version 4 UUID, taken never to repeat one it has
\* handed out.
randomUUID == UUIDs \ {issued[i] : i \in DOMAIN issued}

(***************************************************************************)
(* The state machine.                                                      *)
(*                                                                         *)
(* A run follows one of two scenarios.  In "one job" the callers create a  *)
(* single job and then call the manager without limit: every sequence of   *)
(* calls and timer firings on one job is explored.  In "many jobs" they    *)
(* create any number of jobs and make at most MaxCalls calls.              *)
(***************************************************************************)
Scenarios == {"one job", "many jobs"}

NoHist == [op |-> "none", afterProcessing |-> FALSE, restart |-> FALSE,
           reentered |-> FALSE, lowered |-> FALSE, timedOut |-> FALSE, age |-> 0,
           left |-> undefined]
NoArgs == <<>>
Terminal == {"done", "failed"}

Init ==
    /\ jobs = EmptyMap
    /\ timeouts = EmptyMap
    /\ cleanupTimers = EmptyMap
    /\ timers = {}
    /\ now = 0
    /\ issued = <<>>
    /\ last = [op |-> "new", jobId |-> "none", args |-> NoArgs, ok |-> TRUE]
    /\ scenario \in Scenarios
    /\ calls = 0
    /\ hist = [j \in JobIds |-> NoHist]
    /\ sinceTerminal = [j \in JobIds |-> undefined]
    /\ sinceFirst = [j \in JobIds |-> undefined]
    /\ everFailed = {}

\* A timer is due: the host runs its callback before anything else happens.
Due(t) == t.remaining = 0
TimerDue == \E t \in timers : Due(t)

\* A caller may call: no callback is due, and the run's calls are not used up.
MayCall == ~TimerDue /\ (scenario = "many jobs" => calls < MaxCalls)
Called == calls' = IF scenario = "many jobs" THEN calls + 1 ELSE calls

\* The manager's state after a method or callback has run.
Commit(s) ==
    /\ jobs' = s.jobs
    /\ timeouts' = s.timeouts
    /\ cleanupTimers' = s.cleanupTimers
    /\ timers' = s.timers

\* History: a caller's operation op has just been applied to the job jobId and
\* left the manager in state s.  afterProcessing: op moved the job to done or
\* failed right after a caller had moved it to processing; left is then the
\* status and error op left.  restart: op moved the job to processing while a
\* timeout timer was pending for it.  reentered: op moved the job to done or
\* failed while it was done or failed.  lowered: op left the job with a lower
\* progress than it had.  timedOut: the timeout callback has failed the job
\* since op.
Applied(jobId, op, s) ==
    LET after == op \in {"done", "failed", "failJob"} /\ hist[jobId].op = "processing"
        again == op = "processing"
                    /\ \E t \in timers : t.kind = "timeout" /\ t.jobId = jobId
        twice == op \in {"done", "failed", "failJob"}
                    /\ MapHas(jobs, jobId) /\ jobs[jobId].status \in {"done", "failed"}
        lower == MapHas(jobs, jobId) /\ MapHas(s.jobs, jobId)
                    /\ s.jobs[jobId].progress < jobs[jobId].progress
    IN  hist' = [hist EXCEPT ![jobId] =
                   [op |-> op, afterProcessing |-> after, restart |-> again,
                    reentered |-> twice, lowered |-> lower,
                    timedOut |-> FALSE, age |-> 0,
                    left |-> IF after
                             THEN Some(<<s.jobs[jobId].status, s.jobs[jobId].error>>)
                             ELSE undefined]]

\* History: the job jobId has just entered done or failed (again).
EnteredTerminal(jobId) ==
    /\ sinceTerminal' = [sinceTerminal EXCEPT ![jobId] = Some(0)]
    /\ sinceFirst' = [sinceFirst EXCEPT ![jobId] = IF @ = undefined THEN Some(0) ELSE @]

CreateJob(filePath) ==
    /\ MayCall
    /\ scenario = "one job" => issued = <<>>
    /\ \E uuid \in randomUUID :
         LET r == createJob(State, filePath, uuid, now)
         IN  /\ Commit(r.state)
             /\ issued' = Append(issued, uuid)
             /\ last' = [op |-> "createJob", jobId |-> r.ret, args |-> <<filePath>>,
                         ok |-> TRUE]
             /\ Applied(r.ret, "createJob", r.state)
    /\ Called
    /\ UNCHANGED <<now, scenario, sinceTerminal, sinceFirst, everFailed>>

UpdateJobStatus(jobId, status, progress) ==
    /\ MayCall
    /\ LET r == updateJobStatus(State, jobId, status, progress, now)
       IN  /\ Commit(r.state)
           /\ last' = [op |-> "updateJobStatus", jobId |-> jobId, args |-> NoArgs,
                       ok |-> r.ret]
           /\ IF r.ret
              THEN /\ Applied(jobId, status, r.state)
                   /\ IF status \in Terminal
                      THEN EnteredTerminal(jobId)
                      ELSE UNCHANGED <<sinceTerminal, sinceFirst>>
              ELSE UNCHANGED <<hist, sinceTerminal, sinceFirst>>
    /\ Called
    /\ UNCHANGED <<now, issued, scenario, everFailed>>

FailJob(jobId, errorMessage) ==
    /\ MayCall
    /\ LET r == failJob(State, jobId, errorMessage, now)
       IN  /\ Commit(r.state)
           /\ last' = [op |-> "failJob", jobId |-> jobId, args |-> <<errorMessage>>,
                       ok |-> r.ret]
           /\ IF r.ret
              THEN /\ Applied(jobId, "failJob", r.state)
                   /\ EnteredTerminal(jobId)
                   /\ everFailed' = everFailed \cup {jobId}
              ELSE UNCHANGED <<hist, sinceTerminal, sinceFirst, everFailed>>
    /\ Called
    /\ UNCHANGED <<now, issued, scenario>>

CleanupJob(jobId) ==
    /\ MayCall
    /\ LET r == cleanupJob(State, jobId)
       IN  /\ Commit(r.state)
           /\ last' = [op |-> "cleanupJob", jobId |-> jobId, args |-> NoArgs, ok |-> r.ret]
           /\ IF MapHas(jobs, jobId)
              THEN Applied(jobId, IF r.ret THEN "cleanupJob" ELSE "cleanupJob refused",
                           r.state)
              ELSE UNCHANGED hist
    /\ Called
    /\ UNCHANGED <<now, issued, scenario, sinceTerminal, sinceFirst, everFailed>>

\* Mutant: looking a job up drops it from the registry.
GetJob_Evicts(jobId) ==
    /\ MayCall
    /\ jobs' = MapDelete(jobs, jobId)
    /\ last' = [op |-> "getJob", jobId |-> jobId, args |-> getJob(State, jobId),
                ok |-> getJob(State, jobId) # undefined]
    /\ Called
    /\ UNCHANGED <<timeouts, cleanupTimers, timers, now, issued, scenario, hist,
                   sinceTerminal, sinceFirst, everFailed>>

\* The read operations: args is what the call returned.
GetJob(jobId) ==
    /\ MayCall
    /\ last' = [op |-> "getJob", jobId |-> jobId, args |-> getJob(State, jobId),
                ok |-> getJob(State, jobId) # undefined]
    /\ Called
    /\ UNCHANGED <<jobs, timeouts, cleanupTimers, timers, now, issued, scenario, hist,
                   sinceTerminal, sinceFirst, everFailed>>

GetJobCounts ==
    /\ MayCall
    /\ last' = [op |-> "getJobCounts", jobId |-> "none",
                args |-> <<getJobCounts(State)>>, ok |-> TRUE]
    /\ Called
    /\ UNCHANGED <<jobs, timeouts, cleanupTimers, timers, now, issued, scenario, hist,
                   sinceTerminal, sinceFirst, everFailed>>

GetAllJobs ==
    /\ MayCall
    /\ last' = [op |-> "getAllJobs", jobId |-> "none",
                args |-> <<getAllJobs(State)>>, ok |-> TRUE]
    /\ Called
    /\ UNCHANGED <<jobs, timeouts, cleanupTimers, timers, now, issued, scenario, hist,
                   sinceTerminal, sinceFirst, everFailed>>

\* The host runs a due timeout timer: the timer leaves the queue and its
\* callback runs.
TimeoutFires(t) ==
    /\ t \in timers /\ t.kind = "timeout" /\ Due(t)
    /\ LET r == timeoutCallback([State EXCEPT !.timers = @ \ {t}], t.jobId, now)
       IN  /\ Commit(r.state)
           /\ last' = [op |-> "timeout", jobId |-> t.jobId, args |-> NoArgs, ok |-> r.ret]
           /\ IF r.ret
              THEN /\ EnteredTerminal(t.jobId)
                   /\ everFailed' = everFailed \cup {t.jobId}
                   /\ hist' = [hist EXCEPT ![t.jobId].timedOut = TRUE]
              ELSE UNCHANGED <<sinceTerminal, sinceFirst, everFailed, hist>>
    /\ UNCHANGED <<now, issued, scenario, calls>>

\* The host runs a due cleanup timer.
CleanupFires(t) ==
    /\ t \in timers /\ t.kind = "cleanup" /\ Due(t)
    /\ Commit(cleanupCallback([State EXCEPT !.timers = @ \ {t}], t.jobId))
    /\ last' = [op |-> "cleanup", jobId |-> t.jobId, args |-> NoArgs, ok |-> TRUE]
    /\ UNCHANGED <<now, issued, scenario, calls, hist, sinceTerminal, sinceFirst,
                   everFailed>>

\* Virtual time advances by one tick; nothing is due.
Elapse(t) == [t EXCEPT !.remaining = IF @ >= TickMs THEN @ - TickMs ELSE 0]
\* A handle kept in a map is the timer object: it ages with the timer while
\* the timer is pending.
ElapseHandles(m) == [k \in DOMAIN m |-> IF m[k] \in timers THEN Elapse(m[k]) ELSE m[k]]
\* History: an age grows with time up to cap, and cap stands for cap or more.
Older(age, cap) == IF age + TickMs <= cap THEN age + TickMs ELSE cap
OlderIfSet(age, cap) == IF age = undefined THEN undefined ELSE Some(Older(age[1], cap))

Tick ==
    /\ ~TimerDue
    /\ timers' = {Elapse(t) : t \in timers}
    /\ timeouts' = ElapseHandles(timeouts)
    /\ cleanupTimers' = ElapseHandles(cleanupTimers)
    /\ now' = IF now < MaxTicks * TickMs THEN now + TickMs ELSE now
    /\ hist' = [j \in JobIds |->
                  IF hist[j].op = "processing" \/ hist[j].afterProcessing
                  THEN [hist[j] EXCEPT !.age = Older(@, defaultTimeoutMs + TickMs)]
                  ELSE hist[j]]
    /\ sinceTerminal' = [j \in JobIds |-> OlderIfSet(sinceTerminal[j], cleanupDelayMs)]
    /\ sinceFirst' = [j \in JobIds |-> OlderIfSet(sinceFirst[j], cleanupDelayMs)]
    /\ last' = [op |-> "tick", jobId |-> "none", args |-> NoArgs, ok |-> TRUE]
    /\ UNCHANGED <<jobs, issued, scenario, calls, everFailed>>

Next ==
    \/ \E filePath \in FilePaths : CreateJob(filePath)
    \/ \E jobId \in IdArgs, status \in Statuses,
          progress \in {undefined} \cup {Some(p) : p \in ProgressArgs} :
            UpdateJobStatus(jobId, status, progress)
    \/ \E jobId \in IdArgs, errorMessage \in ErrorMessages : FailJob(jobId, errorMessage)
    \/ \E jobId \in IdArgs : CleanupJob(jobId)
    \/ \E jobId \in IdArgs : GetJob(jobId)
    \/ GetJobCounts
    \/ GetAllJobs
    \/ \E t \in timers : TimeoutFires(t)
    \/ \E t \in timers : CleanupFires(t)
    \/ Tick

Spec == Init /\ [][Next]_vars

\* The host's event loop runs a timer's callback once the timer is due, and time
\* passes.  Nothing obliges a caller to call.
Fairness ==
    /\ WF_vars(Tick)
    /\ WF_vars(\E t \in timers : TimeoutFires(t))
    /\ WF_vars(\E t \in timers : CleanupFires(t))

\* The runs in which the callers stop calling: those of the scenario that bounds
\* their calls.
LiveInit == Init /\ scenario = "many jobs"
LiveSpec == LiveInit /\ [][Next]_vars /\ Fairness

(***************************************************************************)
(* Properties.                                                             *)
(***************************************************************************)
Present(j) == MapHas(jobs, j)
\* createJob has returned j at some time.
Created(j) == hist[j].op # "none"
PendingFor(kind, j) == {t \in timers : t.kind = kind /\ t.jobId = j}
\* The step just taken was the call or callback op on the id j.
Was(op, j) == last.op = op /\ last.jobId = j

\* C1: a job whose status is done or failed keeps that status for as long as it
\* stays in the registry, whatever is called and whichever timer fires.
C1_TerminalIsFinal ==
    [][\A j \in JobIds :
         (Present(j) /\ jobs[j].status \in Terminal /\ MapHas(jobs', j))
            => jobs'[j].status = jobs[j].status]_vars

\* C2: for every job in the registry, completedAt is set if and only if the
\* status is done or failed.
C2_CompletedAtIffTerminal ==
    \A j \in DOMAIN jobs :
        (jobs[j].completedAt # undefined) <=> (jobs[j].status \in Terminal)

\* C3 as claimed: for every job in the registry, error is present if and only if
\* the status is failed.
C3_ErrorIffFailed ==
    \A j \in DOMAIN jobs : (jobs[j].error # undefined) <=> (jobs[j].status = "failed")

\* C3 as amended: for every job in the registry, error is present if and only if
\* failJob has been applied to the job, by a caller or by the timeout callback;
\* a job that updateJobStatus alone has marked failed has no error.
C3_ErrorIffFailJobApplied ==
    \A j \in DOMAIN jobs : (jobs[j].error # undefined) <=> (j \in everFailed)

C3_Witness ==
    \E j \in DOMAIN jobs :
        /\ jobs[j].status = "failed" /\ jobs[j].error = undefined
        /\ hist[j].op = "failed"

\* C4: a job moved to processing and not called on again is, once the timeout
\* window has elapsed, in the registry with status failed, the generated
\* timeout message as error, and completedAt set.
C4_TimeoutFails ==
    \A j \in JobIds :
        (hist[j].op = "processing" /\ hist[j].age = defaultTimeoutMs /\ ~TimerDue)
            => /\ Present(j)
               /\ jobs[j].status = "failed"
               /\ jobs[j].error = Some("Job timed out after 120 seconds")
               /\ jobs[j].completedAt # undefined

\* C5: once a job has been moved to processing and then to done or failed, and
\* until it is called on again, no timeout timer is pending for it, the timeout
\* callback does not run for it, it is still in the registry when the timeout
\* window has passed, and its status and error are what the terminal operation
\* left.
C5_TimeoutCancelled ==
    \A j \in JobIds :
        hist[j].afterProcessing
            => /\ PendingFor("timeout", j) = {}
               /\ ~Was("timeout", j)
               /\ (hist[j].age <= defaultTimeoutMs => Present(j))
               /\ (Present(j) => <<jobs[j].status, jobs[j].error>> = hist[j].left[1])

C5_Witness ==
    \E j \in DOMAIN jobs :
        /\ hist[j].afterProcessing /\ hist[j].op = "done"
        /\ hist[j].age = defaultTimeoutMs
        /\ jobs[j].status = "done" /\ jobs[j].error = undefined

\* The time the claim C6 measures has passed for a caller once no timer is due.
Elapsed(since, delay) == since[1] >= delay /\ ~TimerDue
ManuallyCleaned(j) == hist[j].op = "cleanupJob"

\* C6 as claimed: a job that entered done or failed at time T is returned by
\* getJob at every time before T + the cleanup delay unless it was manually
\* cleaned up, and is not found from T + the cleanup delay on; T being any
\* entry, the first one included.
C6_RemovedAfterFirstEntry ==
    \A j \in JobIds :
        sinceFirst[j] # undefined
            => /\ sinceFirst[j][1] < cleanupDelayMs
                    => getJob(State, j) # undefined \/ ManuallyCleaned(j)
               /\ Elapsed(sinceFirst[j], cleanupDelayMs) => getJob(State, j) = undefined

\* C6 as amended: T is the job's latest entry into done or failed (by
\* updateJobStatus, failJob or the timeout callback): getJob returns the job at
\* every time before T + the cleanup delay unless it was manually cleaned up,
\* and not-found from T + the cleanup delay on.
C6_RemovedAfterLatestEntry ==
    \A j \in JobIds :
        sinceTerminal[j] # undefined
            => /\ sinceTerminal[j][1] < cleanupDelayMs
                    => getJob(State, j) # undefined \/ ManuallyCleaned(j)
               /\ Elapsed(sinceTerminal[j], cleanupDelayMs) => getJob(State, j) = undefined

\* The cleanup delay has passed since a job first entered done or failed, and
\* getJob still returns the job because it entered done or failed again since.
C6_Witness ==
    \E j \in JobIds :
        /\ sinceFirst[j] # undefined /\ Elapsed(sinceFirst[j], cleanupDelayMs)
        /\ sinceTerminal[j][1] < cleanupDelayMs
        /\ getJob(State, j) # undefined

\* C7: cleanupJob on a job that is queued or processing returns false and leaves
\* the job and the timers as they were; on a job that is done or failed it
\* returns true and the job is no longer in the registry.
C7_CleanupGuard ==
    [][\A j \in JobIds :
         (last'.op = "cleanupJob" /\ last'.jobId = j /\ Present(j))
            => IF jobs[j].status \in {"queued", "processing"}
               THEN /\ last'.ok = FALSE
                    /\ UNCHANGED <<jobs, timeouts, cleanupTimers, timers>>
               ELSE /\ last'.ok = TRUE
                    /\ ~MapHas(jobs', j)]_vars

\* cleanupJob has just refused a processing job whose timeout timer is pending.
C7_Witness ==
    \E j \in DOMAIN jobs :
        /\ Was("cleanupJob", j) /\ last.ok = FALSE
        /\ jobs[j].status = "processing"
        /\ PendingFor("timeout", j) # {}

\* C8: updateJobStatus, failJob and cleanupJob on an id that is not in the
\* registry return false and leave the registry and the timers as they were.
C8_UnknownId ==
    [][\A j \in IdArgs :
         (last'.op \in {"updateJobStatus", "failJob", "cleanupJob"}
            /\ last'.jobId = j /\ ~Present(j))
            => /\ last'.ok = FALSE
               /\ UNCHANGED <<jobs, timeouts, cleanupTimers, timers>>]_vars

\* failJob has just been refused on an id whose job the cleanup timer removed,
\* while another id has never been created.
C8_Witness ==
    \E j \in JobIds :
        /\ Was("failJob", j) /\ last.ok = FALSE
        /\ Created(j) /\ ~Present(j) /\ ~ManuallyCleaned(j)
        /\ \E k \in JobIds : ~Created(k)

\* C9: right after createJob has returned the id J, the registry holds J with
\* status queued, progress 0, the source reference given, no error and no
\* completedAt, and no timeout or cleanup timer exists for J.
C9_InitialState ==
    \A j \in JobIds :
        Was("createJob", j)
            => /\ Present(j)
               /\ jobs[j].id = j
               /\ jobs[j].status = "queued"
               /\ jobs[j].progress = 0
               /\ jobs[j].filePath = last.args[1]
               /\ jobs[j].error = undefined
               /\ jobs[j].completedAt = undefined
               /\ ~MapHas(timeouts, j) /\ ~MapHas(cleanupTimers, j)
               /\ PendingFor("timeout", j) = {} /\ PendingFor("cleanup", j) = {}

\* createJob has just returned while another job is pending with a timer.
C9_Witness ==
    \E j \in JobIds :
        /\ Was("createJob", j) /\ now > 0
        /\ \E k \in DOMAIN jobs : k # j /\ MapHas(timeouts, k)

\* C10: the id createJob returns is one it has not returned before, and is not
\* the id of a job in the registry.
C10_UniqueIds ==
    [][\A j \in JobIds :
         (last'.op = "createJob" /\ last'.jobId = j) => ~Created(j) /\ ~Present(j)]_vars

\* createJob has returned twice.
C10_Witness ==
    /\ last.op = "createJob"
    /\ \E k \in JobIds : k # last.jobId /\ Created(k)

\* The step just taken moved the job j to done or failed: a successful
\* updateJobStatus to done or failed, or a successful failJob (a caller's, or the
\* timeout callback's).
TerminalEntry(j) ==
    \/ Was("updateJobStatus", j) /\ last.ok /\ hist[j].op \in Terminal
    \/ Was("failJob", j) /\ last.ok
    \/ Was("timeout", j) /\ last.ok

\* C11: right after a successful updateJobStatus to done or failed, or a
\* successful failJob, the job has completedAt set, no timeout timer is pending
\* for it, and exactly one cleanup timer is pending for it.
C11_TerminalEntryEffects ==
    \A j \in JobIds :
        TerminalEntry(j)
            => /\ Present(j)
               /\ jobs[j].completedAt # undefined
               /\ PendingFor("timeout", j) = {} /\ ~MapHas(timeouts, j)
               /\ Cardinality(PendingFor("cleanup", j)) = 1
               /\ MapHas(cleanupTimers, j) /\ cleanupTimers[j] \in timers

\* failJob has just been applied to a job that was moved to processing after it
\* had been done or failed before, so that a timeout timer and an older cleanup
\* timer were pending for it.
C11_Witness ==
    \E j \in DOMAIN jobs :
        /\ Was("failJob", j) /\ last.ok
        /\ hist[j].afterProcessing
        /\ sinceFirst[j][1] > 0 /\ sinceTerminal[j][1] = 0

\* C12: when updateJobStatus(processing) is applied to a job that has a timeout
\* timer pending, then, until the job is called on again, exactly one timeout
\* timer is pending for it, due a full timeout duration after that update; the
\* timeout callback does not run for the job before then.
C12_TimeoutRestart ==
    \A j \in JobIds :
        (hist[j].op = "processing" /\ hist[j].restart)
            => /\ hist[j].age < defaultTimeoutMs
                    => /\ PendingFor("timeout", j)
                            = {Timer("timeout", j, defaultTimeoutMs - hist[j].age)}
                       /\ MapHas(timeouts, j) /\ timeouts[j] \in PendingFor("timeout", j)
                       /\ ~Was("timeout", j)
               /\ hist[j].age = defaultTimeoutMs
                    => \A t \in PendingFor("timeout", j) : Due(t)
               /\ Was("timeout", j) => hist[j].age = defaultTimeoutMs

\* A job was moved to processing again one tick after it was first moved to
\* processing; the timer of the first update would be due now, and the job is
\* still processing.
C12_Witness ==
    \E j \in DOMAIN jobs :
        /\ hist[j].op = "processing" /\ hist[j].restart
        /\ hist[j].age = defaultTimeoutMs - TickMs
        /\ jobs[j].status = "processing"
        /\ sinceFirst[j] = undefined

\* C13: once cleanupJob has succeeded on the id j, no cleanup timer and no
\* timeout timer is pending or recorded for j, and no timer callback runs for j.
C13_CleanupCancelsTimers ==
    \A j \in JobIds :
        ManuallyCleaned(j)
            => /\ PendingFor("cleanup", j) = {} /\ PendingFor("timeout", j) = {}
               /\ ~MapHas(cleanupTimers, j) /\ ~MapHas(timeouts, j)
               /\ ~Was("cleanup", j) /\ ~Was("timeout", j)
               /\ ~Present(j)

\* A job was manually cleaned up, and the cleanup delay has since passed.
C13_Witness ==
    \E j \in JobIds :
        /\ ManuallyCleaned(j)
        /\ sinceTerminal[j] # undefined /\ Elapsed(sinceTerminal[j], cleanupDelayMs)

\* C14: failJob on a job in the registry, whatever its status, returns true and
\* leaves the job with status failed and the message given as error.
C14_FailJobForces ==
    [][\A j \in JobIds :
         (last'.op = "failJob" /\ last'.jobId = j /\ Present(j))
            => /\ last'.ok = TRUE
               /\ MapHas(jobs', j)
               /\ jobs'[j].status = "failed"
               /\ jobs'[j].error = Some(last'.args[1])]_vars

\* failJob has just been applied, with the caller's message, to a job that had
\* entered done or failed at an earlier time.
C14_Witness ==
    \E j \in DOMAIN jobs :
        /\ Was("failJob", j) /\ last.ok
        /\ hist[j].op = "failJob" /\ ~hist[j].afterProcessing
        /\ sinceFirst[j][1] > 0 /\ sinceTerminal[j][1] = 0
        /\ jobs[j].error = Some("OCR processing failed")

\* C15: whenever a job leaves the registry (by the cleanup timer or by
\* cleanupJob), its status is done or failed.
C15_RemovedOnlyTerminal ==
    [][\A j \in JobIds :
         (Present(j) /\ ~MapHas(jobs', j)) => jobs[j].status \in Terminal]_vars

\* C16: whenever the timeout callback changes a job to failed, the job's status
\* just before was processing.
C16_TimeoutOnlyProcessing ==
    [][\A j \in JobIds :
         (last'.op = "timeout" /\ last'.jobId = j /\ Present(j))
            => (jobs[j].status = "processing" \/ jobs'[j] = jobs[j])]_vars

\* C17: once a job's completedAt has a value, no operation or timer firing
\* changes that value.
C17_CompletedAtOnce ==
    [][\A j \in JobIds :
         (Present(j) /\ jobs[j].completedAt # undefined /\ MapHas(jobs', j))
            => jobs'[j].completedAt = jobs[j].completedAt]_vars

\* C18: no operation changes the status of a job in the registry from
\* processing, done or failed to queued.
C18_QueuedOnlyAtCreation ==
    [][\A j \in JobIds :
         (Present(j) /\ jobs[j].status # "queued" /\ MapHas(jobs', j))
            => jobs'[j].status # "queued"]_vars

\* What the manager holds for the id j: its record, its timer handles and its
\* pending timers.
Of(j, js, ts, cs, q) ==
    <<IF MapHas(js, j) THEN Some(js[j]) ELSE undefined,
      IF MapHas(ts, j) THEN Some(ts[j]) ELSE undefined,
      IF MapHas(cs, j) THEN Some(cs[j]) ELSE undefined,
      {t \in q : t.jobId = j}>>

\* C19: updateJobStatus, failJob, cleanupJob, and a timeout or cleanup timer
\* firing, for the id a leave the record, the timeout timer and the cleanup
\* timer of every other id b as they were.
C19_Independent ==
    [][\A a \in IdArgs, b \in JobIds :
         (a # b /\ last'.jobId = a
            /\ last'.op \in {"updateJobStatus", "failJob", "cleanupJob", "timeout",
                             "cleanup"})
            => Of(b, jobs', timeouts', cleanupTimers', timers')
                 = Of(b, jobs, timeouts, cleanupTimers, timers)]_vars

\* The timeout callback has just failed one job while another job is processing
\* with its own timeout timer pending.
C19_Witness ==
    \E a \in DOMAIN jobs, b \in DOMAIN jobs :
        /\ a # b
        /\ Was("timeout", a) /\ last.ok /\ jobs[a].status = "failed"
        /\ jobs[b].status = "processing" /\ PendingFor("timeout", b) # {}

\* C20: getJob, getJobCounts and getAllJobs leave the registry, every job record
\* and both timer maps as they were, whether or not the id is known.
C20_ReadsChangeNothing ==
    [][last'.op \in {"getJob", "getJobCounts", "getAllJobs"}
          => UNCHANGED <<jobs, timeouts, cleanupTimers, timers>>]_vars

\* getJob has just reported not-found for an id that is not in the registry,
\* while a job is processing with its timeout timer pending.
C20_Witness ==
    \E j \in JobIds :
        /\ Was("getJob", j) /\ last.args = undefined
        /\ ~Present(j)
        /\ \E k \in DOMAIN jobs : jobs[k].status = "processing" /\ MapHas(timeouts, k)

\* The number of jobs in the registry with the status st.
WithStatus(st) == Cardinality({j \in DOMAIN jobs : jobs[j].status = st})

\* C21: what getJobCounts returns gives, for each status, the number of jobs in
\* the registry with that status, and as total the number of jobs in the
\* registry, which is the sum of the four.
C21_CountsAreRight ==
    last.op = "getJobCounts"
        => LET counts == last.args[1]
           IN  /\ \A st \in Statuses : counts[st] = WithStatus(st)
               /\ counts.total = Cardinality(DOMAIN jobs)
               /\ counts.total = counts.queued + counts.processing + counts.done
                                    + counts.failed

\* getJobCounts has just counted two jobs of different statuses.
C21_Witness ==
    /\ last.op = "getJobCounts"
    /\ last.args[1].total = 2 /\ last.args[1].processing = 1 /\ last.args[1].queued = 1

\* C22: the record getJob has returned to a caller is a copy: no operation of
\* the manager on that job changes what the caller reads in it.
C22_GetJobReturnsCopy ==
    [][\A j \in JobIds :
         (Was("getJob", j) /\ last.args # undefined)
            => ReadThrough(j, jobs, jobs') = last.args[1]]_vars

\* C23: the id, filePath and createdAt of a job in the registry never change.
C23_IdentityIsFixed ==
    [][\A j \in JobIds :
         (Present(j) /\ MapHas(jobs', j))
            => /\ jobs'[j].id = jobs[j].id
               /\ jobs'[j].filePath = jobs[j].filePath
               /\ jobs'[j].createdAt = jobs[j].createdAt]_vars

\* A job created at time 0 has just been updated at a later time.
C23_Witness ==
    \E j \in DOMAIN jobs :
        /\ Was("updateJobStatus", j) /\ last.ok
        /\ now > 0 /\ jobs[j].createdAt = 0 /\ jobs[j].id = j

\* C24: a job moved to processing and not called on again is in the registry
\* with status processing at every time before the timeout duration has
\* elapsed.
C24_StillProcessing ==
    \A j \in JobIds :
        (hist[j].op = "processing" /\ hist[j].age < defaultTimeoutMs)
            => Present(j) /\ jobs[j].status = "processing"

\* C25: every job in the registry whose status is processing has a timeout
\* timer pending.
C25_ProcessingHasTimeout ==
    \A j \in DOMAIN jobs :
        jobs[j].status = "processing"
            => /\ PendingFor("timeout", j) # {}
               /\ MapHas(timeouts, j) /\ timeouts[j] \in timers

\* A job that was done before is processing again, and a refused cleanupJob has
\* left its timeout timer pending.
C25_Witness ==
    \E j \in DOMAIN jobs :
        /\ jobs[j].status = "processing" /\ sinceFirst[j] # undefined
        /\ Was("cleanupJob", j) /\ last.ok = FALSE
        /\ PendingFor("timeout", j) # {}

\* C26: once the timeout callback has failed a job in the registry, and until the
\* job is called on again, no timeout timer is pending or recorded for it, one
\* cleanup timer is pending, due one cleanup delay after the timeout fired; the
\* job stays in the registry, failed, until then, and is gone from then on.
C26_TimeoutIsTerminalEntry ==
    \A j \in JobIds :
        hist[j].timedOut
            => /\ ~MapHas(timeouts, j) /\ PendingFor("timeout", j) = {}
               /\ sinceTerminal[j][1] < cleanupDelayMs
                    => /\ Present(j) /\ jobs[j].status = "failed"
                       /\ PendingFor("cleanup", j)
                            = {Timer("cleanup", j, cleanupDelayMs - sinceTerminal[j][1])}
                       /\ MapHas(cleanupTimers, j) /\ cleanupTimers[j] \in timers
               /\ Elapsed(sinceTerminal[j], cleanupDelayMs) => ~Present(j)

\* The cleanup timer has just removed a job that the timeout had failed one
\* cleanup delay earlier.
C26_Witness ==
    \E j \in JobIds :
        /\ hist[j].timedOut /\ Was("cleanup", j)
        /\ sinceTerminal[j][1] = cleanupDelayMs /\ ~Present(j)

\* The callers call on the job j only finitely many times.
MutatingCalls == {"updateJobStatus", "failJob", "cleanupJob"}
FinitelyCalled(j) == <>[]~(last.jobId = j /\ last.op \in MutatingCalls)

\* C27: whenever a job is processing, it is later done or failed, provided that
\* timers fire when due and the job is called on only finitely many times.
C27_ProcessingEnds ==
    \A j \in JobIds :
        FinitelyCalled(j)
            => ((Present(j) /\ jobs[j].status = "processing")
                    ~> (Present(j) /\ jobs[j].status \in Terminal))

\* C28: whenever a job is done or failed, it is later out of the registry,
\* provided that timers fire when due and the job is called on only finitely
\* many times.
C28_TerminalIsReclaimed ==
    \A j \in JobIds :
        FinitelyCalled(j)
            => ((Present(j) /\ jobs[j].status \in Terminal) ~> ~Present(j))

\* The cleanup timer has just removed a job that was done or failed for one
\* cleanup delay.
C28_Witness ==
    \E j \in JobIds :
        /\ Was("cleanup", j) /\ ~Present(j)
        /\ sinceTerminal[j] = Some(cleanupDelayMs) /\ ~ManuallyCleaned(j)

\* C29: updateJobStatus returns false if and only if the id is not in the
\* registry, whatever the job's status and the status asked for.
C29_UpdateRefusesOnlyUnknown ==
    [][\A j \in IdArgs :
         (last'.op = "updateJobStatus" /\ last'.jobId = j)
            => (last'.ok = FALSE <=> ~Present(j))]_vars

\* updateJobStatus has just accepted a terminal status for a job that had
\* entered done or failed at an earlier time.
C29_Witness ==
    \E j \in DOMAIN jobs :
        /\ Was("updateJobStatus", j) /\ last.ok
        /\ hist[j].op \in Terminal /\ ~hist[j].afterProcessing
        /\ sinceFirst[j][1] > 0 /\ sinceTerminal[j][1] = 0

\* C30: updateJobStatus on a job in the registry sets progress to the value
\* given, and leaves it as it was when none is given; failJob and the timer
\* callbacks leave progress as it was.
C30_ProgressFrame ==
    [][\A j \in JobIds :
         /\ (last'.op = "updateJobStatus" /\ last'.jobId = j /\ Present(j))
              => \A progress \in {undefined} \cup {Some(p) : p \in ProgressArgs} :
                    UpdateJobStatus(j, hist'[j].op, progress)
                 => /\ MapHas(jobs', j)
                    /\ jobs'[j].progress = IF progress # undefined
                                           THEN progress[1]
                                           ELSE jobs[j].progress
         /\ (last'.op \in {"failJob", "timeout", "cleanup"} /\ Present(j) /\ MapHas(jobs', j))
              => jobs'[j].progress = jobs[j].progress]_vars

\* The timeout callback has just failed a job whose progress was 50.
C30_Witness ==
    \E j \in DOMAIN jobs :
        /\ Was("timeout", j) /\ last.ok
        /\ jobs[j].progress = 50 /\ jobs[j].status = "failed"

\* C31: updateJobStatus with a progress lower than the job's returns true and
\* stores the lower value.
C31_DecreaseAccepted ==
    [][\A j \in JobIds :
         (last'.op = "updateJobStatus" /\ last'.jobId = j /\ Present(j))
            => \A status \in Statuses, p \in ProgressArgs :
                  (p < jobs[j].progress /\ UpdateJobStatus(j, status, Some(p)))
                     => /\ last'.ok = TRUE
                        /\ MapHas(jobs', j) /\ jobs'[j].progress = p]_vars

\* updateJobStatus has just taken a job's progress from 50 down to 0.
C31_Witness ==
    \E j \in DOMAIN jobs :
        /\ Was("updateJobStatus", j) /\ last.ok
        /\ hist[j].lowered /\ jobs[j].progress = 0

\* C32: what getAllJobs returns lists the jobs in the registry, each once, and no
\* other; its length is the total getJobCounts gives.
C32_AllJobsAreListed ==
    last.op = "getAllJobs"
        => LET all == last.args[1]
           IN  /\ {all[i] : i \in DOMAIN all} = {jobs[j] : j \in DOMAIN jobs}
               /\ \A i, k \in DOMAIN all : all[i].id = all[k].id => i = k
               /\ Len(all) = Cardinality(DOMAIN jobs)
               /\ Len(all) = getJobCounts(State).total

\* getAllJobs has just listed the one job left after the cleanup timer removed
\* another.
C32_Witness ==
    /\ last.op = "getAllJobs" /\ Len(last.args[1]) = 1
    /\ \E j \in JobIds : Created(j) /\ ~Present(j) /\ ~ManuallyCleaned(j)

\* C33: every id recorded in the timeout map or in the cleanup map is the id of a
\* job in the registry, and no timer is pending for an id that is not.
C33_NoTimerForAbsentJob ==
    \A j \in JobIds :
        ~Present(j)
            => /\ ~MapHas(timeouts, j) /\ ~MapHas(cleanupTimers, j)
               /\ PendingFor("timeout", j) = {} /\ PendingFor("cleanup", j) = {}

\* C34: every job in the registry whose status is done or failed has a cleanup
\* timer pending.
C34_TerminalHasCleanup ==
    \A j \in DOMAIN jobs :
        jobs[j].status \in Terminal
            => /\ PendingFor("cleanup", j) # {}
               /\ MapHas(cleanupTimers, j) /\ cleanupTimers[j] \in timers

\* A job the timeout has failed is in the registry, its cleanup timer partly
\* elapsed.
C34_Witness ==
    \E j \in DOMAIN jobs :
        /\ hist[j].timedOut /\ jobs[j].status = "failed"
        /\ sinceTerminal[j][1] > 0
        /\ PendingFor("cleanup", j) # {}

\* The handle the manager keeps for the id j in the map m, as a set.
Handle(m, j) == IF MapHas(m, j) THEN {m[j]} ELSE {}

\* C35: for each id at most one timeout timer and at most one cleanup timer is
\* pending, and it is the one whose handle the manager keeps: a timer that was
\* replaced or cancelled is not in the host's queue, and so never fires.
C35_OneTimerPerKind ==
    \A j \in JobIds :
        /\ PendingFor("timeout", j) \subseteq Handle(timeouts, j)
        /\ PendingFor("cleanup", j) \subseteq Handle(cleanupTimers, j)

\* A job that was done or failed has been moved to processing twice: its timeout
\* timer was replaced, and its cleanup timer is pending too.
C35_Witness ==
    \E j \in DOMAIN jobs :
        /\ hist[j].restart /\ hist[j].age > 0
        /\ Cardinality(PendingFor("timeout", j)) = 1
        /\ Cardinality(PendingFor("cleanup", j)) = 1

\* C36: once a job that was done or failed has been moved to done or failed
\* again, and until it is called on again, exactly one cleanup timer is pending
\* for it, due one cleanup delay after that second transition; the job is in the
\* registry until then and gone from then on.
C36_SecondEntryRestartsCleanup ==
    \A j \in JobIds :
        hist[j].reentered
            => /\ sinceTerminal[j][1] < cleanupDelayMs
                    => /\ Present(j)
                       /\ PendingFor("cleanup", j)
                            = {Timer("cleanup", j, cleanupDelayMs - sinceTerminal[j][1])}
                       /\ Handle(cleanupTimers, j) = PendingFor("cleanup", j)
               /\ Elapsed(sinceTerminal[j], cleanupDelayMs) => ~Present(j)

\* One cleanup delay after a job first became done or failed, the job is still in
\* the registry: it was moved to done or failed again in between.
C36_Witness ==
    \E j \in DOMAIN jobs :
        /\ hist[j].reentered
        /\ Elapsed(sinceFirst[j], cleanupDelayMs)
        /\ sinceTerminal[j][1] > 0 /\ sinceTerminal[j][1] < cleanupDelayMs

\* createJob is the only thing that was ever called on the job j.
OnlyCreated(h, j) == h[j].op = "createJob"

\* C37: a job that was created and never called on since is in the registry with
\* status queued and has no timer, however much time passes and whichever timers
\* fire for other jobs; cleanupJob on it returns false and leaves it there.
C37_UntouchedJobStays ==
    [][\A j \in JobIds :
         /\ OnlyCreated(hist', j)
              => /\ MapHas(jobs', j) /\ jobs'[j].status = "queued"
                 /\ ~MapHas(timeouts', j) /\ ~MapHas(cleanupTimers', j)
                 /\ \A t \in timers' : t.jobId # j
         /\ (OnlyCreated(hist, j) /\ last'.op = "cleanupJob" /\ last'.jobId = j)
              => /\ last'.ok = FALSE
                 /\ MapHas(jobs', j) /\ jobs'[j] = jobs[j]]_vars

\* The cleanup timer of another job has just fired, at least one cleanup delay
\* after a job was created that was never called on since.
C37_Witness ==
    \E j \in DOMAIN jobs, k \in JobIds :
        /\ k # j /\ OnlyCreated(hist, j)
        /\ Was("cleanup", k) /\ ~Present(k)
        /\ jobs[j].status = "queued"

\* The state the callback of the due timer t starts in: t has left the host's
\* queue.
Fired(t) == [State EXCEPT !.timers = @ \ {t}]

\* C38 as claimed: cancelling the timeout or cleanup timer of a job that has no
\* pending timer of that kind, its timer having been never armed, already
\* cancelled or already fired, changes neither the registry nor the timer maps.
C38_CancelChangesNothing ==
    [][/\ \A j \in JobIds :
            /\ PendingFor("timeout", j) = {} => clearJobTimeout(State, j) = State
            /\ PendingFor("cleanup", j) = {} => clearJobCleanup(State, j) = State
       /\ \A t \in timers :
            TimeoutFires(t) => clearJobTimeout(Fired(t), t.jobId) = Fired(t)]_vars

\* C38 as amended: cancelling the timeout or cleanup timer of a job that has no
\* pending timer of that kind changes neither the registry, nor the host's
\* pending timers, nor the map of the other kind; it changes nothing at all when
\* the manager keeps no handle of that kind for the job (never armed, already
\* cancelled), and otherwise only drops the job's handle of a timer that has
\* fired, as the timeout callback's own failJob does.
C38_CancelOnlyDropsStaleHandle ==
    [][/\ \A j \in JobIds :
            /\ ~MapHas(timeouts, j) => clearJobTimeout(State, j) = State
            /\ ~MapHas(cleanupTimers, j) => clearJobCleanup(State, j) = State
            /\ PendingFor("timeout", j) = {}
                 => clearJobTimeout(State, j)
                      = [State EXCEPT !.timeouts = MapDelete(@, j)]
            /\ PendingFor("cleanup", j) = {}
                 => clearJobCleanup(State, j)
                      = [State EXCEPT !.cleanupTimers = MapDelete(@, j)]
       /\ \A t \in timers :
            TimeoutFires(t)
               => clearJobTimeout(Fired(t), t.jobId)
                    = [Fired(t) EXCEPT !.timeouts = MapDelete(@, t.jobId)]]_vars

\* The timeout callback has just failed a job: its failJob cancelled the timer
\* that had fired, and dropped its handle.
C38_Witness ==
    \E j \in DOMAIN jobs :
        /\ Was("timeout", j) /\ last.ok
        /\ ~MapHas(timeouts, j) /\ PendingFor("timeout", j) = {}
        /\ MapHas(cleanupTimers, j)

====
